---- MODULE Spec2Model ----
(***************************************************************************)
(* State-machine model of monitorWebsite (src/src/lib/monitor/monitor.ts). *)
(*                                                                         *)
(* monitorWebsite is one async function: every `await` is a suspension     *)
(* point, so each action below is one synchronous segment of the function  *)
(* (from one await to the next), or one event delivered by the runtime     *)
(* (an HTTP response, a DNS answer, a socket event, a timer).              *)
(*                                                                         *)
(* Units: durations measured with performance.now() are in microseconds    *)
(* (so that Math.round to milliseconds is a real conversion); wall-clock   *)
(* instants (Date) are in milliseconds relative to the instant the         *)
(* invocation starts.                                                      *)
(***************************************************************************)
EXTENDS Integers, Sequences, FiniteSets, TLC

VARIABLES
    req,        \* the request: the handler that serves it and its method
    res,        \* the response the handler has sent (Null before it)
    first,      \* what an earlier request for the same target met and reported
                \* (Null during the first request)
    input,      \* the x-monitor-url header, handed to monitorWebsite as inputUrl
                \* (token sequence; empty when the header is missing or empty)
    url,        \* the local `url`: the trimmed input (Null before it is assigned)
    hostname,   \* the local `hostname` taken from new URL(url) (Null before)
    pc,         \* the await at which monitorWebsite is suspended
    result,     \* the `result` object (key -> value), the Report once returned
    call,       \* one record per safeHeadOrGet invocation (web, three ports, ping)
    dnsq,       \* the four DNS queries handed to Promise.allSettled
    sock,       \* the TLS socket and the handshake promise
    rdap,       \* the rdapDomainInfo invocation
    clock,      \* microseconds elapsed since monitorWebsite was entered
    focus       \* the probe whose upstream answers range over the extended sets

vars == <<req, res, first, input, url, hostname, pc, result, call, dnsq, sock, rdap, clock, focus>>

(***************************************************************************)
(* Bounds of the model and program constants.                              *)
(***************************************************************************)
\* At most this many entries in the `events` array of an RDAP answer.
MaxEvents == 2

UsPerMs == 1000
WebTimeoutMs == 8000
PortTimeoutMs == 5000
PingTimeoutMs == 6000
TlsTimeoutMs == 6000
MsPerDay == 86400000
GoodBelowMs == 500
TlsPort == 443

\* JavaScript null / a present value, for fields that may be null.
Null == <<>>
Some(x) == <<x>>

Max(a, b) == IF a >= b THEN a ELSE b

\* Math.round of a duration in microseconds, in milliseconds (half rounds up).
RoundMs(us) == (us + 500) \div UsPerMs

\* Math.round(ms / 86400000): floor(x + 1/2), also for negative x.
RoundDays(ms) == (ms + (MsPerDay \div 2)) \div MsPerDay

(***************************************************************************)
(* Target strings.  A string is a sequence of tokens; " " is whitespace,   *)
(* "://" and "." and "/" and ":" are the URL delimiters, anything else is  *)
(* a run of ordinary characters.                                           *)
(***************************************************************************)
RECURSIVE TrimLeft(_)
TrimLeft(s) == IF s # <<>> /\ Head(s) = " " THEN TrimLeft(Tail(s)) ELSE s

RECURSIVE TrimRight(_)
TrimRight(s) ==
    IF s # <<>> /\ s[Len(s)] = " " THEN TrimRight(SubSeq(s, 1, Len(s) - 1)) ELSE s

\* String.prototype.trim
Trim(s) == TrimRight(TrimLeft(s))

\* s.split('.') on a token sequence: the tokens between the dots.
RECURSIVE SplitDots(_)
SplitDots(s) ==
    IF s = <<>> THEN <<>>
    ELSE IF Head(s) = "." THEN SplitDots(Tail(s))
    ELSE <<Head(s)>> \o SplitDots(Tail(s))

\* labels.join('.')
RECURSIVE JoinDots(_)
JoinDots(labels) ==
    IF labels = <<>> THEN <<>>
    ELSE IF Len(labels) = 1 THEN labels
    ELSE <<Head(labels), ".">> \o JoinDots(Tail(labels))

\* arr.slice(-n)
LastN(s, n) == IF Len(s) <= n THEN s ELSE SubSeq(s, Len(s) - n + 1, Len(s))

HttpSchemes == {"http", "https"}
HostDelims == {"/", ":", "?", "#"}

\* The tokens of the authority: everything after "scheme://" up to the first
\* delimiter that ends the host.
RECURSIVE HostTokens(_)
HostTokens(s) ==
    IF s = <<>> \/ Head(s) \in HostDelims \/ Head(s) = " " THEN <<>>
    ELSE <<Head(s)>> \o HostTokens(Tail(s))

\* new URL(url): [ok |-> FALSE] when the constructor throws (no scheme, or an
\* http(s) URL with an empty host), otherwise the parsed scheme and hostname.
\* A URL of another scheme without an authority ("mailto:admin") parses, with
\* the empty hostname.
ParseURL(u) ==
    IF Len(u) >= 2 /\ u[1] \in HttpSchemes /\ u[2] = "://"
    THEN LET host == HostTokens(SubSeq(u, 3, Len(u)))
         IN  IF host = <<>> \/ Head(host) = "." THEN [ok |-> FALSE]
             ELSE [ok |-> TRUE, scheme |-> u[1], hostname |-> host]
    ELSE IF Len(u) >= 2 /\ u[1] \notin HttpSchemes /\ u[2] = ":"
    THEN [ok |-> TRUE, scheme |-> u[1], hostname |-> <<>>]
    ELSE [ok |-> FALSE]

\* Whether fetch(url) issues a request: it rejects at once when the URL does
\* not parse or its scheme is not http(s).
Fetchable(u) == ParseURL(u).ok /\ ParseURL(u).scheme \in HttpSchemes

\* The target strings the caller may hand in.
PaddedUrl == <<" ", "https", "://", "www", ".", "example", ".", "co", ".", "uk", "/", " ">>
BareHost == <<"example", ".", "com">>
NoHostUrl == <<"https", "://">>
HostlessUrl == <<"mailto", ":", "admin">>
NoTarget == <<>>
Inputs == {PaddedUrl, BareHost, NoHostUrl, HostlessUrl}

(***************************************************************************)
(* psl.parse and the registrable domain.                                   *)
(***************************************************************************)
PublicSuffixes == {<<"com">>, <<"uk">>, <<"co", "uk">>}

\* The longest public suffix that the labels end with (0 labels when none).
SuffixLen(labels) ==
    LET fits == {n \in 1..Len(labels) : LastN(labels, n) \in PublicSuffixes}
    IN  IF fits = {} THEN 0 ELSE CHOOSE n \in fits : \A m \in fits : m <= n

\* psl.parse(hostname).domain: the suffix and one more label, null when the
\* suffix is unknown or the host is itself a public suffix.
PslDomain(host) ==
    LET labels == SplitDots(host)
        n == SuffixLen(labels)
    IN  IF n = 0 \/ Len(labels) <= n THEN Null
        ELSE Some(JoinDots(LastN(labels, n + 1)))

\* parsed?.domain ?? hostname.split('.').slice(-2).join('.')
RegistrableDomain(host) ==
    LET d == PslDomain(host)
    IN  IF d # Null THEN d[1] ELSE JoinDots(LastN(SplitDots(host), 2))

(***************************************************************************)
(* safeHeadOrGet: one record per invocation.                               *)
(***************************************************************************)
CallIds == {"web", "p80", "p443", "p8080", "ping"}
PortCalls == {"p80", "p443", "p8080"}

ErrAborted == "This operation was aborted"
ErrFetch == "fetch failed"

IdleCall ==
    [st |-> "idle", url |-> <<>>, timer |-> "none", timeoutUs |-> 0, elapsed |-> 0,
     head |-> Null, resp |-> Null, err |-> "", nhead |-> 0, nget |-> 0]

\* safeHeadOrGet(url, timeoutMs) up to its first await: abortableTimeout arms
\* the timer and the HEAD request is issued.
StartCall(target, timeoutMs) ==
    [IdleCall EXCEPT !.st = "head", !.url = target, !.timer = "armed",
                     !.timeoutUs = timeoutMs * UsPerMs, !.nhead = 1]

\* res.ok
IsOk(status) == status >= 200 /\ status <= 299

\* A retry condition that upgrades to GET only on 405 Method Not Allowed.
NeedsGetOnlyOn405(status) == status = 405

\* The condition under which the HEAD response is replaced by a GET request.
NeedsGet(status) == ~IsOk(status) \/ status = 405

\* A response arrives for the request in flight: after HEAD, either the GET is
\* issued or the response is returned; after GET the response is returned.  The
\* finally block clears the timer on return.
OnResponse(c, status, latency) ==
    IF c.st = "head" /\ NeedsGet(status)
    THEN [c EXCEPT !.st = "get", !.head = Some(status), !.nget = @ + 1,
                   !.elapsed = @ + latency]
    ELSE [c EXCEPT !.st = "returned", !.resp = Some(status),
                   !.head = IF c.st = "head" THEN Some(status) ELSE @,
                   !.elapsed = @ + latency, !.timer = "cleared"]

\* The request in flight rejects (connection error): the exception leaves
\* safeHeadOrGet through the finally block.
OnReject(c, latency) ==
    [c EXCEPT !.st = "threw", !.err = ErrFetch,
              !.elapsed = @ + latency, !.timer = "cleared"]

\* The timer fires: controller.abort() rejects the request in flight.
OnTimer(c) ==
    [c EXCEPT !.st = "threw", !.err = ErrAborted,
              !.elapsed = c.timeoutUs, !.timer = "fired"]

InFlight(c) == c.st \in {"head", "get"}
Finished(c) == c.st \in {"returned", "threw"}

(***************************************************************************)
(* Upstream behaviours.  Every answer of an upstream service is an input   *)
(* of the run.  The runs are explored in scenarios, fixed by `focus` when  *)
(* the run starts:                                                         *)
(*   focus = "none":  every probe's upstream gives its nominal success or  *)
(*                    its nominal failure, or stays silent, in every       *)
(*                    combination;                                         *)
(*   focus = p:       the upstream of probe p ranges over the extended     *)
(*                    answer sets, the other probes' upstreams answer with *)
(*                    the nominal success.                                 *)
(***************************************************************************)
Focuses == {"none", "tls", "rdap"} \cup CallIds

\* The upstream of `probe` may fail or stay silent in this run.
MayFail(probe) == focus \in {"none", probe}

NominalLatency == 100 * UsPerMs

\* HTTP responses: [status, latency in microseconds].
NominalResponse == [status |-> 200, latency |-> NominalLatency]
Responses ==
    {NominalResponse,
     [status |-> 404, latency |-> NominalLatency],
     [status |-> 405, latency |-> NominalLatency],
     [status |-> 200, latency |-> 499600],
     [status |-> 200, latency |-> 600 * UsPerMs]}

\* The responses the HTTP server may give to a request of call `id`.
ResponsesFor(id) == IF focus = id THEN Responses ELSE {NominalResponse}

(***************************************************************************)
(* The Report.                                                             *)
(***************************************************************************)
ReportKeys ==
    {"url", "timestamp", "websiteMonitoring", "responseTime", "dnsMonitoring",
     "sslMonitoring", "domainExpiration", "portMonitoring", "pingMonitoring"}

\* obj[key] = value
Put(obj, key, value) ==
    [k \in DOMAIN obj \cup {key} |-> IF k = key THEN value ELSE obj[k]]

\* Date.prototype.toISOString of an instant (ms relative to the start).
ToISOString(ms) == [iso |-> ms]

\* WebsiteMonitoring whose catch block leaves out statusCode.
WebsiteMonitoringNoStatusCode(c) ==
    IF c.st = "returned"
    THEN [status |-> IF IsOk(c.resp[1]) THEN "online" ELSE "offline",
          statusCode |-> Some(c.resp[1])]
    ELSE [status |-> "offline", error |-> c.err]

\* result.websiteMonitoring, from the finished safeHeadOrGet call.
WebsiteMonitoring(c) ==
    IF c.st = "returned"
    THEN [status |-> IF IsOk(c.resp[1]) THEN "online" ELSE "offline",
          statusCode |-> Some(c.resp[1])]
    ELSE [status |-> "offline", statusCode |-> Null, error |-> c.err]

\* ResponseTime that classifies the rounded value instead of the elapsed time.
ResponseTimeOfRounded(c) ==
    IF c.st = "returned"
    THEN [value |-> Some(RoundMs(c.elapsed)), unit |-> "ms",
          status |-> IF RoundMs(c.elapsed) < GoodBelowMs THEN "good" ELSE "slow"]
    ELSE [value |-> Null, unit |-> "ms", status |-> "error"]

\* result.responseTime, from the finished safeHeadOrGet call.
ResponseTime(c) ==
    IF c.st = "returned"
    THEN [value |-> Some(RoundMs(c.elapsed)), unit |-> "ms",
          status |-> IF c.elapsed < GoodBelowMs * UsPerMs THEN "good" ELSE "slow"]
    ELSE [value |-> Null, unit |-> "ms", status |-> "error"]

(***************************************************************************)
(* DNS monitoring.                                                         *)
(***************************************************************************)
DnsTypes == {"A", "MX", "TXT", "NS"}

\* What the resolver answers for each record type.
DnsAnswer(type) ==
    CASE type = "A"   -> <<"93.184.216.34">>
      [] type = "MX"  -> <<[exchange |-> "mail.example.co.uk", priority |-> 10]>>
      [] type = "TXT" -> << <<"v=spf1", "-all">>, <<"site-verification=abc">> >>
      [] type = "NS"  -> <<"ns1.example.co.uk", "ns2.example.co.uk">>

RECURSIVE Flat(_)
Flat(ss) == IF ss = <<>> THEN <<>> ELSE Head(ss) \o Flat(Tail(ss))

\* The value stored under records[type] for a fulfilled query.
DnsRecordValue(type) ==
    CASE type = "MX"  -> [i \in DOMAIN DnsAnswer("MX") |-> DnsAnswer("MX")[i].exchange]
      [] type = "TXT" -> Flat(DnsAnswer("TXT"))
      [] OTHER        -> DnsAnswer(type)

\* DnsKept that tests for a settled query instead of a fulfilled one.
DnsKeptWhenSettled(q, type) == q[type] \in {"fulfilled", "rejected"}

\* Whether the settled query's value is written into the record set.
DnsKept(q, type) == q[type] = "fulfilled"

\* result.dnsMonitoring, from the four settled queries.
DnsMonitoring(q) ==
    [status |-> "resolved",
     records |-> [t \in {u \in DnsTypes : DnsKept(q, u)} |-> DnsRecordValue(t)]]

(***************************************************************************)
(* SSL monitoring: the TLS socket, its three `once` handlers and the       *)
(* handshake promise.                                                      *)
(***************************************************************************)
ErrTlsTimeout == "TLS timeout"
ErrConnRefused == "connect ECONNREFUSED"

\* Certificates as getPeerCertificate() returns them; validity instants in ms
\* relative to the start of the invocation.
NominalCert ==
    [issuerO |-> Some("Let's Encrypt"), issuerCN |-> Some("R11"),
     subjectCN |-> Some(<<"example", ".", "co", ".", "uk">>),
     validFrom |-> -(10 * MsPerDay), validTo |-> 10 * MsPerDay]
Certs ==
    {NominalCert,
     [NominalCert EXCEPT !.validTo = MsPerDay \div 2],
     [NominalCert EXCEPT !.validTo = (3 * MsPerDay) \div 2],
     [NominalCert EXCEPT !.validTo = -(MsPerDay \div 2)],
     [NominalCert EXCEPT !.issuerO = Null],
     [NominalCert EXCEPT !.issuerO = Null, !.issuerCN = Null],
     [NominalCert EXCEPT !.subjectCN = Null]}
CertsFor(probe) == IF focus = probe THEN Certs ELSE {NominalCert}

NoSocket ==
    [st |-> "none", promise |-> "none", cert |-> Null, err |-> "",
     fired |-> {}, elapsed |-> 0]

\* tls.connect({host, port: 443, servername, timeout: 6000}) inside the promise
\* executor: the socket is connecting and the three handlers are registered.
TlsConnect == [NoSocket EXCEPT !.st = "connecting", !.promise = "pending"]

\* resolve / reject settle the promise only the first time they are called.
\* A reject that settles the promise again when it is already settled.
RejectAgain(s, msg, latency) ==
    [s EXCEPT !.promise = "rejected", !.err = msg,
              !.elapsed = IF s.promise = "pending" THEN latency ELSE @]

Resolve(s, cert, latency) ==
    IF s.promise = "pending"
    THEN [s EXCEPT !.promise = "resolved", !.cert = Some(cert), !.elapsed = latency]
    ELSE s
Reject(s, msg, latency) ==
    IF s.promise = "pending"
    THEN [s EXCEPT !.promise = "rejected", !.err = msg, !.elapsed = latency]
    ELSE s

\* socket.once('secureConnect'): getPeerCertificate, socket.end(), resolve(cert).
OnSecureConnect(s, cert, latency) ==
    Resolve([s EXCEPT !.st = "ended", !.fired = @ \cup {"secureConnect"}],
            cert, latency)

\* A 'timeout' handler that rejects without destroying the socket.
OnTlsTimeoutNoDestroy(s) ==
    Reject([s EXCEPT !.fired = @ \cup {"timeout"}],
           ErrTlsTimeout, TlsTimeoutMs * UsPerMs)

\* socket.once('timeout'): socket.destroy(), reject(new Error('TLS timeout')).
OnTlsTimeout(s) ==
    Reject([s EXCEPT !.st = "destroyed", !.fired = @ \cup {"timeout"}],
           ErrTlsTimeout, TlsTimeoutMs * UsPerMs)

\* socket.once('error'): socket.destroy(), reject(err).
OnTlsError(s, msg, latency) ==
    Reject([s EXCEPT !.st = "destroyed", !.fired = @ \cup {"error"}], msg, latency)

\* data.issuer?.O ?? data.issuer?.CN ?? 'Unknown'
Issuer(cert) ==
    IF cert.issuerO # Null THEN cert.issuerO[1]
    ELSE IF cert.issuerCN # Null THEN cert.issuerCN[1]
    ELSE "Unknown"

\* data.subject?.CN ?? hostname
Subject(cert, host) ==
    IF cert.subjectCN # Null THEN cert.subjectCN[1] ELSE host

\* sslMonitoring with `daysUntilExpiry >= 0 ? 'valid' : 'expired'`.
SslMonitoringValidAtZero(s, nowMs, host) ==
    IF s.promise = "resolved"
    THEN LET cert == s.cert[1]
             daysUntilExpiry == RoundDays(cert.validTo - nowMs)
         IN  [status |-> IF daysUntilExpiry >= 0 THEN "valid" ELSE "expired",
              certificate |->
                  [issuer |-> Issuer(cert),
                   subject |-> Subject(cert, host),
                   validFrom |-> ToISOString(cert.validFrom),
                   validTo |-> ToISOString(cert.validTo),
                   daysUntilExpiry |-> daysUntilExpiry]]
    ELSE [status |-> "error", error |-> s.err]

\* result.sslMonitoring, from the settled handshake promise, at instant nowMs.
SslMonitoring(s, nowMs, host) ==
    IF s.promise = "resolved"
    THEN LET cert == s.cert[1]
             daysUntilExpiry == RoundDays(cert.validTo - nowMs)
         IN  [status |-> IF daysUntilExpiry > 0 THEN "valid" ELSE "expired",
              certificate |->
                  [issuer |-> Issuer(cert),
                   subject |-> Subject(cert, host),
                   validFrom |-> ToISOString(cert.validFrom),
                   validTo |-> ToISOString(cert.validTo),
                   daysUntilExpiry |-> daysUntilExpiry]]
    ELSE [status |-> "error", error |-> s.err]

(***************************************************************************)
(* Domain expiration: rdapDomainInfo.                                      *)
(***************************************************************************)
UpperCase == <<"A", "D", "E", "I", "N", "O", "P", "R", "S", "T", "X">>
LowerCase == <<"a", "d", "e", "i", "n", "o", "p", "r", "s", "t", "x">>

\* One character, lower-cased (the /i flag of the pattern).
ToLower(ch) ==
    IF \E i \in DOMAIN UpperCase : UpperCase[i] = ch
    THEN LowerCase[CHOOSE i \in DOMAIN UpperCase : UpperCase[i] = ch]
    ELSE ch

\* Whether the character sequence pat occurs in s, ignoring case.
ContainsNoCase(s, pat) ==
    \E i \in 1..(Len(s) - Len(pat) + 1) :
        \A j \in 1..Len(pat) : ToLower(s[i + j - 1]) = pat[j]

PatExpire == <<"e", "x", "p", "i", "r", "e">>
PatExpiration == <<"e", "x", "p", "i", "r", "a", "t", "i", "o", "n">>

\* typeof e?.eventAction === 'string' && /expire|expiration/i.test(e.eventAction);
\* an eventAction that is missing or not a string is the empty sequence.
IsExpiryAction(action) ==
    action # <<>> /\ (ContainsNoCase(action, PatExpire) \/ ContainsNoCase(action, PatExpiration))

ActRegistration == <<"r", "e", "g", "i", "s", "t", "r", "a", "t", "i", "o", "n">>
ActExpiration == <<"e", "x", "p", "i", "r", "a", "t", "i", "o", "n">>
ActExpiresUpper == <<"E", "X", "P", "I", "R", "E", "S">>

\* new Date(str).getTime(): Null stands for NaN (an unparseable date).
ParseDate(str) ==
    CASE str = "2026-11-24T00:00:00Z" -> Some(20 * MsPerDay)
      [] str = "2026-11-05T12:00:00Z" -> Some((3 * MsPerDay) \div 2)
      [] OTHER -> Null

\* The entries an RDAP answer may carry in `events`; eventDate Null is a missing
\* (or empty) date.
RdapEvents ==
    {[eventAction |-> ActRegistration, eventDate |-> Some("2026-11-05T12:00:00Z")],
     [eventAction |-> ActExpiration, eventDate |-> Some("2026-11-24T00:00:00Z")],
     [eventAction |-> ActExpiration, eventDate |-> Some("not a date")],
     [eventAction |-> ActExpiration, eventDate |-> Null],
     [eventAction |-> ActExpiresUpper, eventDate |-> Some("2026-11-05T12:00:00Z")],
     [eventAction |-> <<>>, eventDate |-> Some("2026-11-24T00:00:00Z")]}

EventLists == UNION {[1..n -> RdapEvents] : n \in 0..MaxEvents}

\* The JSON bodies of an OK answer: events Null is a body without an events array.
NominalBody ==
    [events |-> Some(<<[eventAction |-> ActExpiration,
                        eventDate |-> Some("2026-11-24T00:00:00Z")]>>)]
Bodies == {[events |-> Null]} \cup {[events |-> Some(es)] : es \in EventLists}
BodiesFor(probe) == IF focus = probe THEN Bodies ELSE {NominalBody}

RdapStatuses == {200, 404}

\* `RDAP failed with ${res.status}`
RdapFailedMsg(status) ==
    CASE status = 404 -> "RDAP failed with 404"
      [] OTHER -> "RDAP failed"

ErrJson == "Unexpected token < in JSON"

\* A lookup that takes the last entry whose action matches.
FindExpiryLast(events) ==
    LET hits == {i \in DOMAIN events : IsExpiryAction(events[i].eventAction)}
    IN  IF hits = {} THEN Null
        ELSE Some(events[CHOOSE i \in hits : \A j \in hits : i >= j])

\* data.events.find(...): the first entry whose action matches, Null when none.
FindExpiry(events) ==
    LET hits == {i \in DOMAIN events : IsExpiryAction(events[i].eventAction)}
    IN  IF hits = {} THEN Null
        ELSE Some(events[CHOOSE i \in hits : \A j \in hits : i <= j])

\* The `expiration` local of rdapDomainInfo: Null, or the parsed instant.
ExpirationOf(data) ==
    IF data.events = Null THEN Null
    ELSE LET exp == FindExpiry(data.events[1])
         IN  IF exp # Null /\ exp[1].eventDate # Null
             THEN ParseDate(exp[1].eventDate[1])
             ELSE Null

\* The value rdapDomainInfo returns, at instant nowMs.
RdapInfo(data, nowMs) ==
    LET expiration == ExpirationOf(data)
    IN  [raw |-> data,
         expirationDate |-> expiration,
         daysUntilExpiry |->
             IF expiration # Null THEN Some(RoundDays(expiration[1] - nowMs)) ELSE Null]

\* The rdapDomainInfo invocation: the domain asked for, the status of the answer
\* (Null before it, and when the request failed), the returned value or the
\* message of the exception.
IdleRdap ==
    [st |-> "idle", domain |-> <<>>, status |-> Null, info |-> Null, err |-> "",
     elapsed |-> 0]

\* result.domainExpiration, from the finished rdapDomainInfo invocation.
DomainExpiration(r) ==
    IF r.st = "returned"
    THEN [status |-> "success",
          daysUntilExpiry |-> r.info[1].daysUntilExpiry,
          expirationDate |->
              IF r.info[1].expirationDate # Null
              THEN Some(ToISOString(r.info[1].expirationDate[1]))
              ELSE Null,
          data |-> r.info[1].raw]
    ELSE [status |-> "error", error |-> r.err]

(***************************************************************************)
(* Port monitoring and ping monitoring.                                    *)
(***************************************************************************)
HTTP_PORTS ==
    <<[port |-> 80, scheme |-> "http"],
      [port |-> 443, scheme |-> "https"],
      [port |-> 8080, scheme |-> "http"]>>

HttpPortNumbers == {HTTP_PORTS[i].port : i \in DOMAIN HTTP_PORTS}

\* The safeHeadOrGet invocation of the map callback for a port, and back.
CallOf(port) ==
    CASE port = 80 -> "p80" [] port = 443 -> "p443" [] port = 8080 -> "p8080"
PortOf(id) ==
    CASE id = "p80" -> 80 [] id = "p443" -> 443 [] id = "p8080" -> 8080

\* String(port): the property key of a port in result.portMonitoring, and its
\* text in a URL.
PortText(port) ==
    CASE port = 21 -> "21" [] port = 22 -> "22" [] port = 23 -> "23"
      [] port = 25 -> "25" [] port = 53 -> "53" [] port = 80 -> "80"
      [] port = 110 -> "110" [] port = 143 -> "143" [] port = 443 -> "443"
      [] port = 993 -> "993" [] port = 995 -> "995" [] port = 3306 -> "3306"
      [] port = 5432 -> "5432" [] port = 8080 -> "8080"

\* `${scheme}://${hostname}${...? `:${port}` : ''}/`
PortTarget(h, host) ==
    <<h.scheme, "://">> \o host
    \o (IF (h.scheme = "http" /\ h.port # 80) \/ (h.scheme = "https" /\ h.port # 443)
        THEN <<":", PortText(h.port)>> ELSE <<>>)
    \o <<"/">>

\* [21, 22, ...].filter(p => !HTTP_PORTS.some(h => h.port === p))
SkippedPorts ==
    {p \in {21, 22, 23, 25, 53, 110, 143, 993, 995, 3306, 5432} :
        ~(\E i \in DOMAIN HTTP_PORTS : HTTP_PORTS[i].port = p)}

\* A port entry that reports open only for an OK response.
PortEntryOpenWhenOk(c) ==
    IF c.st = "returned" /\ IsOk(c.resp[1])
    THEN [status |-> "open", responseTime |-> RoundMs(c.elapsed),
          statusCode |-> c.resp[1]]
    ELSE [status |-> "closed-or-filtered"]

\* result.portMonitoring[port], from the finished safeHeadOrGet call.
PortEntry(c) ==
    IF c.st = "returned"
    THEN [status |-> "open", responseTime |-> RoundMs(c.elapsed),
          statusCode |-> c.resp[1]]
    ELSE [status |-> "closed-or-filtered"]

SkippedEntry == [status |-> "skipped_serverless"]

\* PingMonitoring whose catch block records the error without a status.
PingMonitoringNoStatus(c) ==
    IF c.st = "returned"
    THEN [status |-> "reachable", time |-> RoundMs(c.elapsed), unit |-> "ms",
          method |-> "http"]
    ELSE [method |-> "http", error |-> c.err]

\* PingMonitoring that reports a slow answer with a status of its own.
PingMonitoringByLatency(c) ==
    IF c.st = "returned"
    THEN [status |-> IF c.elapsed < GoodBelowMs * UsPerMs THEN "reachable" ELSE "slow",
          time |-> RoundMs(c.elapsed), unit |-> "ms", method |-> "http"]
    ELSE [status |-> "unreachable", method |-> "http", error |-> c.err]

\* PingMonitoring whose catch block leaves out the method tag.
PingMonitoringNoMethod(c) ==
    IF c.st = "returned"
    THEN [status |-> "reachable", time |-> RoundMs(c.elapsed), unit |-> "ms",
          method |-> "http"]
    ELSE [status |-> "unreachable", error |-> c.err]

\* result.pingMonitoring, from the finished safeHeadOrGet call.
PingMonitoring(c) ==
    IF c.st = "returned"
    THEN [status |-> "reachable", time |-> RoundMs(c.elapsed), unit |-> "ms",
          method |-> "http"]
    ELSE [status |-> "unreachable", method |-> "http", error |-> c.err]

(***************************************************************************)
(* monitorWebsite.  A continuation that a settled promise resumes runs as  *)
(* a microtask, before any other event is delivered: it is part of the     *)
(* action of the event that settled the promise.                           *)
(***************************************************************************)
(***************************************************************************)
(* The request handlers: the API route (src/unnamed/part_001) and the      *)
(* handler that monitor.ts itself exports.  `req.handler` says which of    *)
(* the two serves the request.                                             *)
(***************************************************************************)
Handlers == {"route", "lib"}
Methods == {"GET", "POST"}

\* A JSON response body: an object, or an array of items.
JsonObject(o) == [type |-> "object", value |-> o]
JsonArray(items) == [type |-> "array", items |-> items]

\* res.status(status).json(body)
Reply(status, body) == Some([status |-> status, body |-> body])

ErrInvalidUrl == "Invalid URL"
MethodNotAllowedMsg(handler) ==
    IF handler = "route" THEN "Method not allowed. Use GET." ELSE "Method Not Allowed"
MissingTargetMsg(handler) ==
    IF handler = "route" THEN "Missing x-monitor-url header"
    ELSE "URL header (x-monitor-url) is required"

\* { error: message }
ErrorBody(msg) == JsonObject([error |-> msg])

\* The body sent with status 200: `data` in the route, `[report]` in monitor.ts.
OkBody(handler, report) ==
    IF handler = "route" THEN JsonObject(report) ELSE JsonArray(<<report>>)

Init ==
    /\ req \in [handler : Handlers, method : Methods]
    /\ res = Null
    /\ first = Null
    /\ input \in Inputs \cup {NoTarget}
    /\ url = Null
    /\ hostname = Null
    /\ focus \in Focuses
    /\ pc = "init"
    /\ result = <<>>
    /\ call = [id \in CallIds |-> IdleCall]
    /\ dnsq = [t \in DnsTypes |-> "idle"]
    /\ sock = NoSocket
    /\ rdap = IdleRdap
    /\ clock = 0

\* Entry of monitorWebsite up to the first await: the timestamp, trim, new URL
\* (which may throw), the result object, and the first safeHeadOrGet call.  The
\* exception of new URL rejects the promise the handler awaits: its catch block
\* answers 500 with the message.
Start ==
    /\ pc = "init"
    /\ url' = Trim(input)
    /\ IF ParseURL(url').ok
       THEN /\ hostname' = ParseURL(url').hostname
            /\ result' = Put(Put(<<>>, "url", url'), "timestamp", ToISOString(0))
            /\ call' = [call EXCEPT !["web"] = StartCall(url', WebTimeoutMs)]
            /\ pc' = "web"
            /\ UNCHANGED res
       ELSE /\ pc' = "threw"
            /\ res' = Reply(500, ErrorBody(ErrInvalidUrl))
            /\ UNCHANGED <<hostname, result, call>>
    /\ UNCHANGED <<req, first, input, dnsq, sock, rdap, clock, focus>>

\* The handler up to its first await: the method check, the header check, and
\* the call of monitorWebsite.
Handler ==
    /\ pc = "init"
    /\ IF req.method # "GET"
       THEN /\ res' = Reply(405, ErrorBody(MethodNotAllowedMsg(req.handler)))
            /\ pc' = "rejected"
            /\ UNCHANGED <<req, first, input, url, hostname, result, call, dnsq, sock,
                           rdap, clock, focus>>
       ELSE IF input = NoTarget
       THEN /\ res' = Reply(400, ErrorBody(MissingTargetMsg(req.handler)))
            /\ pc' = "rejected"
            /\ UNCHANGED <<req, first, input, url, hostname, result, call, dnsq, sock,
                           rdap, clock, focus>>
       ELSE Start

\* WebContinue with a catch block that records websiteMonitoring only.
WebContinueForgetsResponseTime(c) ==
    /\ result' = IF c.st = "threw"
                 THEN Put(result, "websiteMonitoring", WebsiteMonitoring(c))
                 ELSE Put(Put(result, "websiteMonitoring", WebsiteMonitoring(c)),
                          "responseTime", ResponseTime(c))
    /\ call' = [call EXCEPT !["web"] = c]
    /\ dnsq' = [t \in DnsTypes |-> "pending"]
    /\ clock' = clock + c.elapsed
    /\ pc' = "dns"
    /\ UNCHANGED <<req, first, res, input, url, hostname, sock, rdap, focus>>

\* WebContinue without the try/catch: the exception of safeHeadOrGet leaves
\* monitorWebsite.
WebContinueUncaught(c) ==
    IF c.st = "threw"
    THEN /\ call' = [call EXCEPT !["web"] = c]
         /\ pc' = "threw"
         /\ UNCHANGED <<req, first, res, input, url, hostname, result, dnsq, sock, rdap, clock, focus>>
    ELSE /\ result' = Put(Put(result, "websiteMonitoring", WebsiteMonitoring(c)),
                          "responseTime", ResponseTime(c))
         /\ call' = [call EXCEPT !["web"] = c]
         /\ dnsq' = [t \in DnsTypes |-> "pending"]
         /\ clock' = clock + c.elapsed
         /\ pc' = "dns"
         /\ UNCHANGED <<req, first, res, input, url, hostname, sock, rdap, focus>>

\* After the website probe: both slots are written and the four DNS queries
\* are issued.
WebContinue(c) ==
    /\ result' = Put(Put(result, "websiteMonitoring", WebsiteMonitoring(c)),
                     "responseTime", ResponseTime(c))
    /\ call' = [call EXCEPT !["web"] = c]
    /\ dnsq' = [t \in DnsTypes |-> "pending"]
    /\ clock' = clock + c.elapsed
    /\ pc' = "dns"
    /\ UNCHANGED <<req, first, res, input, url, hostname, sock, rdap, focus>>

\* After Promise.allSettled: the DNS slot is written and the TLS socket opened.
DnsContinue(q) ==
    /\ result' = Put(result, "dnsMonitoring", DnsMonitoring(q))
    /\ dnsq' = q
    /\ sock' = TlsConnect
    /\ clock' = clock + NominalLatency
    /\ pc' = "tls"
    /\ UNCHANGED <<req, first, res, input, url, hostname, call, rdap, focus>>

\* After the handshake promise: the SSL slot is written, the registrable domain
\* derived and the RDAP request issued.
TlsContinue(s) ==
    /\ result' = Put(result, "sslMonitoring",
                     SslMonitoring(s, (clock + s.elapsed) \div UsPerMs, hostname))
    /\ sock' = s
    /\ rdap' = [IdleRdap EXCEPT !.st = "fetch", !.domain = RegistrableDomain(hostname)]
    /\ clock' = clock + s.elapsed
    /\ pc' = "rdap"
    /\ UNCHANGED <<req, first, res, input, url, hostname, call, dnsq, focus>>

\* After rdapDomainInfo: the domain slot is written, portMonitoring is set to {}
\* and the map callback issues the HEAD request of every HTTP port.
RdapContinue(r) ==
    /\ result' = Put(Put(result, "domainExpiration", DomainExpiration(r)),
                     "portMonitoring", <<>>)
    /\ rdap' = r
    /\ call' = [id \in CallIds |->
                  IF \E i \in DOMAIN HTTP_PORTS : CallOf(HTTP_PORTS[i].port) = id
                  THEN LET h == HTTP_PORTS[CHOOSE i \in DOMAIN HTTP_PORTS :
                                               CallOf(HTTP_PORTS[i].port) = id]
                       IN  StartCall(PortTarget(h, hostname), PortTimeoutMs)
                  ELSE call[id]]
    /\ clock' = clock + r.elapsed
    /\ pc' = "ports"
    /\ UNCHANGED <<req, first, res, input, url, hostname, dnsq, sock, focus>>

\* PortContinue when the port requests are awaited one after the other: the
\* wait is the sum of their durations.
PortContinueOneByOne(id, c) ==
    LET calls == [call EXCEPT ![id] = c]
        entries == Put(result.portMonitoring, PortText(PortOf(id)), PortEntry(c))
        allDone == \A p \in PortCalls : Finished(calls[p])
        skipped == {PortText(p) : p \in SkippedPorts}
        marked == [k \in DOMAIN entries \cup skipped |->
                      IF k \in skipped THEN SkippedEntry ELSE entries[k]]
    IN  IF allDone
        THEN /\ result' = Put(result, "portMonitoring", marked)
             /\ call' = [calls EXCEPT !["ping"] = StartCall(url, PingTimeoutMs)]
             /\ clock' = clock + calls["p80"].elapsed + calls["p443"].elapsed
                               + calls["p8080"].elapsed
             /\ pc' = "ping"
             /\ UNCHANGED <<req, first, res, input, url, hostname, dnsq, sock, rdap, focus>>
        ELSE /\ result' = Put(result, "portMonitoring", entries)
             /\ call' = calls
             /\ UNCHANGED <<req, first, res, input, url, hostname, pc, dnsq, sock, rdap, clock, focus>>

\* After one port's request: its entry is written; when it was the last one,
\* Promise.all resolves, the skipped ports are marked and the ping request issued.
PortContinue(id, c) ==
    LET calls == [call EXCEPT ![id] = c]
        entries == Put(result.portMonitoring, PortText(PortOf(id)), PortEntry(c))
        allDone == \A p \in PortCalls : Finished(calls[p])
        skipped == {PortText(p) : p \in SkippedPorts}
        marked == [k \in DOMAIN entries \cup skipped |->
                      IF k \in skipped THEN SkippedEntry ELSE entries[k]]
        longest == CHOOSE e \in {calls[p].elapsed : p \in PortCalls} :
                       \A p \in PortCalls : calls[p].elapsed <= e
    IN  IF allDone
        THEN /\ result' = Put(result, "portMonitoring", marked)
             /\ call' = [calls EXCEPT !["ping"] = StartCall(url, PingTimeoutMs)]
             /\ clock' = clock + longest
             /\ pc' = "ping"
             /\ UNCHANGED <<req, first, res, input, url, hostname, dnsq, sock, rdap, focus>>
        ELSE /\ result' = Put(result, "portMonitoring", entries)
             /\ call' = calls
             /\ UNCHANGED <<req, first, res, input, url, hostname, pc, dnsq, sock, rdap, clock, focus>>

\* After the ping request: the ping slot is written and the result returned;
\* the handler, resumed with it, answers 200.
PingContinue(c) ==
    /\ result' = Put(result, "pingMonitoring", PingMonitoring(c))
    /\ call' = [call EXCEPT !["ping"] = c]
    /\ clock' = clock + c.elapsed
    /\ pc' = "done"
    /\ res' = Reply(200, OkBody(req.handler, result'))
    /\ UNCHANGED <<req, first, input, url, hostname, dnsq, sock, rdap, focus>>

\* The safeHeadOrGet call `id` moves to c: it stays suspended (the GET was
\* issued), or it ended and its caller's continuation runs.
AfterCall(id, c) ==
    IF ~Finished(c)
    THEN /\ call' = [call EXCEPT ![id] = c]
         /\ UNCHANGED <<req, first, res, input, url, hostname, pc, result, dnsq, sock, rdap, clock, focus>>
    ELSE CASE id = "web"  -> WebContinue(c)
           [] id = "ping" -> PingContinue(c)
           [] OTHER       -> PortContinue(id, c)

\* The HTTP server answers the request in flight of call `id`.
HttpRespond(id) ==
    /\ InFlight(call[id])
    /\ Fetchable(call[id].url)
    /\ \E r \in ResponsesFor(id) :
          AfterCall(id, OnResponse(call[id], r.status, r.latency))

\* The request in flight of call `id` fails (connection refused or reset).
HttpFail(id) ==
    /\ InFlight(call[id])
    /\ Fetchable(call[id].url)
    /\ MayFail(id)
    /\ AfterCall(id, OnReject(call[id], NominalLatency))

\* fetch rejects by itself: the URL of call `id` does not parse or is not
\* an http(s) URL.
FetchRefuse(id) ==
    /\ InFlight(call[id])
    /\ ~Fetchable(call[id].url)
    /\ AfterCall(id, OnReject(call[id], 0))

\* A timer wired to a controller that the calls share: when the timer of call
\* `id` fires, the request in flight of some call j is aborted.
TimerFireAbortsPeer(id) ==
    /\ InFlight(call[id])
    /\ call[id].timer = "armed"
    /\ Fetchable(call[id].url)
    /\ MayFail(id)
    /\ \E j \in CallIds :
          /\ InFlight(call[j])
          /\ AfterCall(j, [call[j] EXCEPT !.st = "threw", !.err = ErrAborted,
                                          !.elapsed = call[j].timeoutUs,
                                          !.timer = IF j = id THEN "fired"
                                                    ELSE "cleared"])

\* The timer of call `id` fires while a request is in flight.
TimerFire(id) ==
    /\ InFlight(call[id])
    /\ call[id].timer = "armed"
    /\ Fetchable(call[id].url)
    /\ MayFail(id)
    /\ AfterCall(id, OnTimer(call[id]))

\* One DNS query settles; the last one resumes monitorWebsite.
DnsSettle(t) ==
    /\ dnsq[t] = "pending"
    /\ \E outcome \in {"fulfilled"} \cup (IF MayFail("dns") THEN {"rejected"} ELSE {}) :
          LET q == [dnsq EXCEPT ![t] = outcome]
          IN  IF \E u \in DnsTypes : q[u] = "pending"
              THEN /\ dnsq' = q
                   /\ UNCHANGED <<req, first, res, input, url, hostname, pc, result, call, sock, rdap, clock, focus>>
              ELSE DnsContinue(q)

\* A socket event ran its handler: the first one settles the promise and
\* resumes monitorWebsite, a later one only changes the socket.
AfterSocketEvent(s) ==
    IF sock.promise = "pending"
    THEN TlsContinue(s)
    ELSE /\ sock' = s
         /\ UNCHANGED <<req, first, res, input, url, hostname, pc, result, call, dnsq, rdap, clock, focus>>

\* A socket event may be delivered: the socket is not destroyed, the handler
\* (registered with once) has not run, and the scenario allows the event.
MayDeliver(event) ==
    /\ event \notin sock.fired
    /\ \/ sock.st = "connecting" /\ MayFail("tls")
       \/ sock.st = "ended" /\ focus = "tls"

TlsSecureConnect ==
    /\ sock.st = "connecting"
    /\ \E cert \in CertsFor("tls") :
          AfterSocketEvent(OnSecureConnect(sock, cert, NominalLatency))

TlsTimeout ==
    /\ MayDeliver("timeout")
    /\ AfterSocketEvent(OnTlsTimeout(sock))

TlsError ==
    /\ MayDeliver("error")
    /\ AfterSocketEvent(OnTlsError(sock, ErrConnRefused, NominalLatency))

\* rdapDomainInfo ended: it returned its value or threw.
RdapReturn(data) ==
    RdapContinue([rdap EXCEPT !.st = "returned", !.elapsed = NominalLatency,
                     !.info = Some(RdapInfo(data, (clock + NominalLatency) \div UsPerMs))])
RdapThrow(msg) ==
    RdapContinue([rdap EXCEPT !.st = "threw", !.err = msg, !.elapsed = NominalLatency])

\* The RDAP service answers: a non-OK status throws, an OK one awaits the body.
RdapRespond ==
    /\ rdap.st = "fetch"
    /\ \E status \in (IF focus = "rdap" THEN RdapStatuses ELSE {200}) :
          IF IsOk(status)
          THEN /\ rdap' = [rdap EXCEPT !.st = "json", !.status = Some(status)]
               /\ UNCHANGED <<req, first, res, input, url, hostname, pc, result, call, dnsq, sock, clock, focus>>
          ELSE RdapContinue([rdap EXCEPT !.st = "threw", !.status = Some(status),
                                !.err = RdapFailedMsg(status),
                                !.elapsed = NominalLatency])

\* The RDAP request fails (network error).
RdapNetFail ==
    /\ rdap.st = "fetch"
    /\ MayFail("rdap")
    /\ RdapThrow(ErrFetch)

\* res.json() yields the parsed body, or throws on a body that is not JSON.
RdapBody ==
    /\ rdap.st = "json"
    /\ \/ \E data \in BodiesFor("rdap") : RdapReturn(data)
       \/ focus = "rdap" /\ RdapThrow(ErrJson)

\* What the upstream services answered during a run, latencies and instants
\* left out: per safeHeadOrGet call the HEAD status, the final status and the
\* error; the outcome of each DNS query; the outcome of the handshake and the
\* certificate; the RDAP status, body and error.
CallAnswer(c) == [head |-> c.head, resp |-> c.resp, err |-> c.err]
Answers ==
    [calls |-> [id \in CallIds |-> CallAnswer(call[id])],
     dns |-> dnsq,
     tls |-> [promise |-> sock.promise, cert |-> sock.cert, err |-> sock.err],
     rdap |-> [status |-> rdap.status, err |-> rdap.err,
               raw |-> IF rdap.info = Null THEN Null ELSE Some(rdap.info[1].raw)]]

\* The status fields of a Report.
Statuses(report) ==
    [websiteMonitoring |-> report.websiteMonitoring.status,
     responseTime |-> report.responseTime.status,
     dnsMonitoring |-> report.dnsMonitoring.status,
     sslMonitoring |-> report.sslMonitoring.status,
     domainExpiration |-> report.domainExpiration.status,
     portMonitoring |-> [port \in DOMAIN report.portMonitoring |->
                            report.portMonitoring[port].status],
     pingMonitoring |-> report.pingMonitoring.status]

\* The scenarios in which a second request is followed.
RepeatFocuses == {"web", "ping", "tls", "p443"}

\* The caller, having received a Report, sends the same request again: a new
\* invocation starts from scratch.
SecondRequest ==
    /\ pc = "done"
    /\ first = Null
    /\ focus \in RepeatFocuses
    /\ first' = Some([answers |-> Answers, statuses |-> Statuses(result)])
    /\ res' = Null
    /\ url' = Null
    /\ hostname' = Null
    /\ pc' = "init"
    /\ result' = <<>>
    /\ call' = [id \in CallIds |-> IdleCall]
    /\ dnsq' = [t \in DnsTypes |-> "idle"]
    /\ sock' = NoSocket
    /\ rdap' = IdleRdap
    /\ clock' = 0
    /\ UNCHANGED <<req, input, focus>>

Next ==
    \/ Handler
    \/ \E id \in CallIds : HttpRespond(id)
    \/ \E id \in CallIds : HttpFail(id)
    \/ \E id \in CallIds : FetchRefuse(id)
    \/ \E id \in CallIds : TimerFire(id)
    \/ \E t \in DnsTypes : DnsSettle(t)
    \/ TlsSecureConnect
    \/ TlsTimeout
    \/ TlsError
    \/ RdapRespond
    \/ RdapNetFail
    \/ RdapBody
    \/ SecondRequest

Spec == Init /\ [][Next]_vars

\* What the runtime guarantees: an armed timer fires, a socket's idle timeout
\* is delivered unless the awaited event comes first, the resolver settles
\* every query (it gives up by itself after its retries) and the HTTP client
\* settles the RDAP request (it gives up waiting for the response headers).
\* Nothing bounds the arrival of a response body that keeps coming: the code
\* passes no signal to the fetch of rdapDomainInfo.  Where the scenario fixes
\* the answers (focus # "none") every request is answered.
FairSpec ==
    /\ Spec
    /\ \A id \in CallIds : WF_vars(TimerFire(id))
    /\ \A id \in CallIds : WF_vars(FetchRefuse(id))
    /\ WF_vars(TlsTimeout)
    /\ \A t \in DnsTypes : WF_vars(DnsSettle(t))
    /\ WF_vars(RdapRespond \/ RdapNetFail)
    /\ WF_vars(focus # "none" /\ Next)

(***************************************************************************)
(* The probes, as the claims speak of them.                                *)
(***************************************************************************)
Probes == <<"web", "dns", "tls", "rdap", "ports", "ping">>

\* The probe has issued its first network operation.
ProbeStarted(p) ==
    CASE p = "web"   -> call["web"].st # "idle"
      [] p = "dns"   -> \A t \in DnsTypes : dnsq[t] # "idle"
      [] p = "tls"   -> sock.st # "none"
      [] p = "rdap"  -> rdap.st # "idle"
      [] p = "ports" -> \A id \in PortCalls : call[id].st # "idle"
      [] p = "ping"  -> call["ping"].st # "idle"

\* The probe has ended, with its success or its error outcome.
ProbeEnded(p) ==
    CASE p = "web"   -> Finished(call["web"])
      [] p = "dns"   -> \A t \in DnsTypes : dnsq[t] \in {"fulfilled", "rejected"}
      [] p = "tls"   -> sock.promise \in {"resolved", "rejected"}
      [] p = "rdap"  -> rdap.st \in {"returned", "threw"}
      [] p = "ports" -> \A id \in PortCalls : Finished(call[id])
      [] p = "ping"  -> Finished(call["ping"])

\* The probe has met a failure: an exception, a rejection or a timeout.
ProbeFailed(p) ==
    CASE p = "web"   -> call["web"].st = "threw"
      [] p = "dns"   -> ProbeEnded("dns") /\ \E t \in DnsTypes : dnsq[t] = "rejected"
      [] p = "tls"   -> sock.promise = "rejected"
      [] p = "rdap"  -> rdap.st = "threw"
      [] p = "ports" -> ProbeEnded("ports") /\ \E id \in PortCalls : call[id].st = "threw"
      [] p = "ping"  -> call["ping"].st = "threw"

\* monitorWebsite has returned its Report.
Returned == pc = "done"

(***************************************************************************)
(* C1.  For every target that monitorWebsite accepts and every combination *)
(* of success and failure of the probes, the returned Report has every one *)
(* of the nine top-level keys (and no other).                              *)
(***************************************************************************)
C1_ReportHasAllKeys == Returned => DOMAIN result = ReportKeys

\* A Report returned although the website, TLS and RDAP probes all failed.
C1_Witness ==
    /\ Returned
    /\ ProbeFailed("web") /\ ProbeFailed("tls") /\ ProbeFailed("rdap")
    /\ ~ProbeFailed("ping")

(***************************************************************************)
(* C2.  Failure isolation.  Once the hostname is parsed, a failure of a    *)
(* probe never leaves monitorWebsite as an exception; the probe after a    *)
(* failed one is started all the same, and a returned Report means every   *)
(* probe has ended; every slot holds the outcome of its own probe, and no  *)
(* step of the invocation changes a slot (or a port entry) that is already *)
(* written.                                                                *)
(***************************************************************************)
C2_NoPropagation ==
    /\ pc = "threw" => ~ParseURL(url).ok
    /\ \A i \in DOMAIN Probes :
          ProbeFailed(Probes[i]) =>
              /\ pc # "threw"
              /\ IF i < Len(Probes) THEN ProbeStarted(Probes[i + 1]) ELSE Returned
    /\ Returned => \A i \in DOMAIN Probes : ProbeEnded(Probes[i])

C2_OwnOutcome ==
    /\ "websiteMonitoring" \in DOMAIN result =>
          result.websiteMonitoring = WebsiteMonitoring(call["web"])
    /\ "responseTime" \in DOMAIN result =>
          result.responseTime = ResponseTime(call["web"])
    /\ "dnsMonitoring" \in DOMAIN result =>
          result.dnsMonitoring = DnsMonitoring(dnsq)
    /\ "sslMonitoring" \in DOMAIN result =>
          result.sslMonitoring.status =
              IF sock.promise = "rejected" THEN "error"
              ELSE IF result.sslMonitoring.certificate.daysUntilExpiry > 0
                   THEN "valid" ELSE "expired"
    /\ "domainExpiration" \in DOMAIN result =>
          result.domainExpiration = DomainExpiration(rdap)
    /\ "portMonitoring" \in DOMAIN result =>
          \A id \in PortCalls :
              PortText(PortOf(id)) \in DOMAIN result.portMonitoring =>
                  result.portMonitoring[PortText(PortOf(id))] = PortEntry(call[id])
    /\ "pingMonitoring" \in DOMAIN result =>
          result.pingMonitoring = PingMonitoring(call["ping"])

C2_SlotsKept ==
    ~Returned =>
        \A k \in DOMAIN result :
            /\ k \in DOMAIN result'
            /\ IF k = "portMonitoring"
               THEN \A port \in DOMAIN result[k] :
                        /\ port \in DOMAIN result'[k]
                        /\ result'[k][port] = result[k][port]
               ELSE result'[k] = result[k]

C2_FailureIsolation ==
    [](C2_NoPropagation /\ C2_OwnOutcome) /\ [][C2_SlotsKept]_vars

\* Every probe failed, and the Report was returned with every slot written.
C2_Witness ==
    /\ Returned
    /\ \A i \in DOMAIN Probes : ProbeFailed(Probes[i])
    /\ DOMAIN result = ReportKeys

(***************************************************************************)
(* C3.  Probes with no data dependency run in parallel: once the first     *)
(* probe has started, the DNS, TLS, domain-expiry, port and ping probes    *)
(* have started too (none waits for another to complete), and the Report   *)
(* is produced within the largest single probe timeout.                    *)
(***************************************************************************)
LargestTimeoutMs ==
    Max(WebTimeoutMs, Max(TlsTimeoutMs, Max(PortTimeoutMs, PingTimeoutMs)))

C3_ProbesRunInParallel ==
    /\ ProbeStarted("web") =>
          \A p \in {"dns", "tls", "rdap", "ports", "ping"} : ProbeStarted(p)
    /\ Returned => clock <= LargestTimeoutMs * UsPerMs

(***************************************************************************)
(* C4.  Every probe is bounded by its own timeout: whatever the upstream   *)
(* services do (also when one never answers), every probe ends and         *)
(* monitorWebsite eventually returns a complete Report.                    *)
(***************************************************************************)
C4_EveryProbeEnds ==
    (pc = "web" /\ Fetchable(url)) ~> (Returned /\ DOMAIN result = ReportKeys)

(***************************************************************************)
(* C5.  In every returned Report each probe field carries a status field.  *)
(* As claimed: every one of the seven probe fields has `status` among its  *)
(* own keys.  As amended: every probe field but portMonitoring has it;     *)
(* portMonitoring is keyed by port, and every one of its entries has it.   *)
(***************************************************************************)
ProbeKeys == ReportKeys \ {"url", "timestamp"}

C5_EveryFieldHasStatus ==
    Returned => \A k \in ProbeKeys : "status" \in DOMAIN result[k]

C5_StatusInFieldOrPortEntries ==
    Returned =>
        /\ \A k \in ProbeKeys \ {"portMonitoring"} : "status" \in DOMAIN result[k]
        /\ DOMAIN result.portMonitoring =
              {PortText(p) : p \in HttpPortNumbers \cup SkippedPorts}
        /\ \A port \in DOMAIN result.portMonitoring :
              "status" \in DOMAIN result.portMonitoring[port]

\* A returned Report in which probes of both kinds failed: the ping request
\* and one port request threw, another port answered.
C5_Witness ==
    /\ Returned
    /\ ProbeFailed("ping") /\ ProbeFailed("ports") /\ ProbeFailed("tls")
    /\ \E id \in PortCalls : call[id].st = "returned"

(***************************************************************************)
(* C6.  If the HTTP-Reachability request fails (abort by the timer or a    *)
(* connection error, on HEAD or on the GET retry), the Report has          *)
(* websiteMonitoring = offline with statusCode null and the error message, *)
(* responseTime.value null and responseTime.status error; the DNS, TLS and *)
(* port probes still run and fill their slots.                             *)
(***************************************************************************)
C6_WebFailureOutcome ==
    ProbeFailed("web") =>
        /\ result.websiteMonitoring.status = "offline"
        /\ DOMAIN result.websiteMonitoring = {"status", "statusCode", "error"}
        /\ result.websiteMonitoring.statusCode = Null
        /\ result.websiteMonitoring.error \in {ErrAborted, ErrFetch}
        /\ result.responseTime.value = Null
        /\ result.responseTime.status = "error"
        /\ ProbeStarted("dns")
        /\ Returned =>
              /\ ProbeEnded("dns") /\ ProbeEnded("tls") /\ ProbeEnded("ports")
              /\ {"dnsMonitoring", "sslMonitoring", "portMonitoring"} \subseteq DOMAIN result
              /\ result.dnsMonitoring = DnsMonitoring(dnsq)
              /\ result.sslMonitoring.status \in {"valid", "expired", "error"}
              /\ \A id \in PortCalls :
                    result.portMonitoring[PortText(PortOf(id))] = PortEntry(call[id])

\* The GET retry was aborted by the timer, and the Report was returned with a
\* resolved A record, a valid certificate and an open port.
C6_Witness ==
    /\ Returned
    /\ call["web"].st = "threw" /\ call["web"].nget = 1
    /\ call["web"].err = ErrAborted
    /\ "A" \in DOMAIN result.dnsMonitoring.records
    /\ result.sslMonitoring.status = "valid"
    /\ result.portMonitoring["443"].status = "open"

(***************************************************************************)
(* C7.  DNS probe: the four queries are tracked independently.  For every  *)
(* subset of failing queries, records has exactly the keys of the queries  *)
(* that were fulfilled, each with its answer, and the status is resolved.  *)
(***************************************************************************)
C7_DnsRecordsAreTheFulfilled ==
    "dnsMonitoring" \in DOMAIN result =>
        /\ result.dnsMonitoring.status = "resolved"
        /\ DOMAIN result.dnsMonitoring.records =
              {t \in DnsTypes : dnsq[t] = "fulfilled"}
        /\ \A t \in DnsTypes : dnsq[t] \in {"fulfilled", "rejected"}
        /\ \A t \in DOMAIN result.dnsMonitoring.records :
              Len(result.dnsMonitoring.records[t]) > 0

\* The MX query was rejected and the A query fulfilled: A is there, MX is not.
C7_Witness ==
    /\ "dnsMonitoring" \in DOMAIN result
    /\ dnsq["MX"] = "rejected" /\ dnsq["A"] = "fulfilled"
    /\ "A" \in DOMAIN result.dnsMonitoring.records
    /\ "MX" \notin DOMAIN result.dnsMonitoring.records
    /\ result.dnsMonitoring.status = "resolved"

(***************************************************************************)
(* C8.  TLS probe.  When the handshake completes, daysUntilExpiry is the   *)
(* difference between the certificate's validTo and the current time       *)
(* rounded to whole days (halves upwards), and the status is valid exactly *)
(* when that rounded difference is positive, expired otherwise (so a       *)
(* certificate with less than half a day left counts as expired); validTo  *)
(* 10 days ahead gives valid and 10.  On timeout or handshake error the    *)
(* status is error, with the message of the error.                         *)
(***************************************************************************)
C8_SslOutcome ==
    (pc = "tls" /\ pc' = "rdap") =>
        LET ssl == result'.sslMonitoring
            nowMs == clock' \div UsPerMs
        IN  IF sock'.promise = "resolved"
            THEN LET difference == sock'.cert[1].validTo - nowMs
                     days == ssl.certificate.daysUntilExpiry
                 IN  /\ days * MsPerDay - (MsPerDay \div 2) <= difference
                     /\ difference < days * MsPerDay + (MsPerDay \div 2)
                     /\ ssl.status \in {"valid", "expired"}
                     /\ ssl.status = "valid" <=> days > 0
                     /\ sock'.cert[1].validTo = 10 * MsPerDay =>
                           ssl.status = "valid" /\ days = 10
            ELSE /\ sock'.promise = "rejected"
                 /\ DOMAIN ssl = {"status", "error"}
                 /\ ssl.status = "error"
                 /\ ssl.error = sock'.err
                 /\ ssl.error = IF "timeout" \in sock'.fired
                                THEN ErrTlsTimeout ELSE ErrConnRefused

C8_TlsOutcome == [][C8_SslOutcome]_vars

\* The handshake completed with a certificate whose validTo is 10 days ahead.
C8_Witness ==
    /\ pc = "rdap"
    /\ sock.promise = "resolved"
    /\ sock.cert[1].validTo = 10 * MsPerDay
    /\ result.sslMonitoring.status = "valid"
    /\ result.sslMonitoring.certificate.daysUntilExpiry = 10

(***************************************************************************)
(* C9.  TLS probe resource release: on every exit path (handshake          *)
(* completed, timeout, socket error) the socket has been ended or          *)
(* destroyed by the time the probe records its outcome, and no socket is   *)
(* left open once monitorWebsite has returned.                             *)
(***************************************************************************)
C9_SocketReleased ==
    /\ sock.promise = "resolved" => sock.st \in {"ended", "destroyed"}
    /\ sock.promise = "rejected" => sock.st = "destroyed"
    /\ "sslMonitoring" \in DOMAIN result => sock.st \in {"ended", "destroyed"}
    /\ Returned => sock.st \in {"ended", "destroyed"}

\* The handshake timed out: the outcome is recorded and the socket destroyed.
C9_Witness ==
    /\ Returned
    /\ sock.promise = "rejected" /\ sock.err = ErrTlsTimeout
    /\ result.sslMonitoring.status = "error"
    /\ sock.st = "destroyed"

(***************************************************************************)
(* C10.  Domain-expiry probe.  The status is success whenever the lookup   *)
(* service answered with an OK status and its body parsed; daysUntilExpiry *)
(* is then null exactly when the body has no event whose action matches    *)
(* expire/expiration (ignoring case) or the first such event has a missing *)
(* or unparseable date.  The status is error, with the message, on a       *)
(* network failure, a non-OK answer or a body that does not parse.         *)
(***************************************************************************)
C10_FirstExpiryEvent(events) ==
    LET hits == {i \in DOMAIN events : IsExpiryAction(events[i].eventAction)}
    IN  events[CHOOSE i \in hits : \A j \in hits : i <= j]

C10_NoUsableExpiry(data) ==
    \/ data.events = Null
    \/ \A i \in DOMAIN data.events[1] : ~IsExpiryAction(data.events[1][i].eventAction)
    \/ LET e == C10_FirstExpiryEvent(data.events[1])
       IN  e.eventDate = Null \/ ParseDate(e.eventDate[1]) = Null

C10_DomainExpiryOutcome ==
    "domainExpiration" \in DOMAIN result =>
        LET de == result.domainExpiration
            answeredOk == rdap.status # Null /\ IsOk(rdap.status[1])
        IN  /\ de.status \in {"success", "error"}
            /\ de.status = "success" <=> (answeredOk /\ rdap.st = "returned")
            /\ de.status = "success" =>
                  /\ de.data = rdap.info[1].raw
                  /\ de.daysUntilExpiry = Null <=> C10_NoUsableExpiry(de.data)
                  /\ de.expirationDate = Null <=> C10_NoUsableExpiry(de.data)
            /\ de.status = "error" =>
                  /\ DOMAIN de = {"status", "error"}
                  /\ de.error =
                        IF rdap.status = Null THEN ErrFetch
                        ELSE IF ~IsOk(rdap.status[1]) THEN RdapFailedMsg(rdap.status[1])
                        ELSE ErrJson

\* An OK answer whose events hold no expiry-like action: success with null.
C10_Witness ==
    /\ Returned
    /\ rdap.status = Some(200)
    /\ result.domainExpiration.status = "success"
    /\ result.domainExpiration.daysUntilExpiry = Null
    /\ result.domainExpiration.data.events # Null
    /\ Len(result.domainExpiration.data.events[1]) > 0
    /\ \A i \in DOMAIN result.domainExpiration.data.events[1] :
          ~IsExpiryAction(result.domainExpiration.data.events[1][i].eventAction)

(***************************************************************************)
(* C11.  Port probe.  Once the port probe is over, each of the ports 21,   *)
(* 22, 23, 25, 53, 110, 143, 993, 995, 3306, 5432 has the entry            *)
(* skipped_serverless and no request was ever made to it; each of 80, 443, *)
(* 8080 is open, with a non-negative responseTime and the status code,     *)
(* when its request got a response (whatever its code), and                *)
(* closed-or-filtered when its request failed or timed out.                *)
(***************************************************************************)
C11_PortOutcome ==
    /\ SkippedPorts = {21, 22, 23, 25, 53, 110, 143, 993, 995, 3306, 5432}
    /\ \A id \in PortCalls : PortOf(id) \notin SkippedPorts
    /\ Returned =>
          \A id \in CallIds : \A p \in SkippedPorts :
              \A i \in DOMAIN call[id].url : call[id].url[i] # PortText(p)
    /\ pc \in {"ping", "done"} =>
          /\ \A p \in SkippedPorts :
                result.portMonitoring[PortText(p)] = [status |-> "skipped_serverless"]
          /\ \A id \in PortCalls :
                LET entry == result.portMonitoring[PortText(PortOf(id))]
                IN  IF call[id].st = "returned"
                    THEN /\ entry.status = "open"
                         /\ entry.responseTime >= 0
                         /\ entry.statusCode = call[id].resp[1]
                    ELSE /\ call[id].st = "threw"
                         /\ entry = [status |-> "closed-or-filtered"]

\* Port 80 answered 404, also to the GET retry, and port 443 answered 200.
C11_Witness ==
    /\ Returned
    /\ call["p80"].nget = 1
    /\ result.portMonitoring["80"].status = "open"
    /\ result.portMonitoring["80"].statusCode = 404
    /\ result.portMonitoring["443"].statusCode = 200
    /\ result.portMonitoring["22"].status = "skipped_serverless"

(***************************************************************************)
(* C12.  The Ping-Equivalent outcome is the HTTP-Reachability check's      *)
(* outcome: in every Report pingMonitoring is reachable, with time equal   *)
(* to responseTime.value, when the HTTP-Reachability check obtained a      *)
(* response, and unreachable when that check failed.                       *)
(***************************************************************************)
C12_PingIsWebOutcome ==
    Returned =>
        /\ call["web"].st = "returned" =>
              /\ result.pingMonitoring.status = "reachable"
              /\ Some(result.pingMonitoring.time) = result.responseTime.value
        /\ call["web"].st = "threw" =>
              result.pingMonitoring.status = "unreachable"

(***************************************************************************)
(* C13.  Invalid target: when the input is not a syntactically valid URL,  *)
(* or no hostname can be derived from it, monitorWebsite fails with a      *)
(* single top-level error before any probe starts (no network operation    *)
(* is issued) and no Report is produced.                                   *)
(***************************************************************************)
C13_InvalidTargetFailsFast ==
    (pc \notin {"init", "rejected"}
        /\ (~ParseURL(url).ok \/ ParseURL(url).hostname = <<>>)) =>
        /\ pc = "threw"
        /\ \A i \in DOMAIN Probes : ~ProbeStarted(Probes[i])
        /\ result = <<>>
        /\ res # Null /\ res[1].status = 500

(***************************************************************************)
(* C14.  A target supplied as a bare hostname (no scheme) is accepted the  *)
(* same way as an absolute URL: the invocation runs the probes and returns *)
(* a Report, it does not end in the invalid-target error.                  *)
(***************************************************************************)
C14_BareHostnameAccepted ==
    (req.method = "GET" /\ input = BareHost /\ pc # "init") =>
        /\ pc # "threw"
        /\ ProbeStarted("web")
        /\ res # Null => res[1].status = 200

(***************************************************************************)
(* C15.  All port checks run concurrently: the requests for ports 80, 443  *)
(* and 8080 are all issued in the same step, before any of them completes; *)
(* the probe waits for all of them (the ping request is issued only when   *)
(* every port request has ended); and the wait of the port probe is the    *)
(* duration of the slowest port check, at most one 5 s timeout.            *)
(***************************************************************************)
C15_StartedTogether ==
    (pc # "ports" /\ pc' = "ports") =>
        \A id \in PortCalls : call[id].st = "idle" /\ call'[id].st = "head"

C15_WaitsForAll ==
    /\ pc = "ports" => \E id \in PortCalls : ~Finished(call[id])
    /\ ProbeStarted("ping") => \A id \in PortCalls : Finished(call[id])

C15_WaitIsSlowest ==
    (pc = "ports" /\ pc' = "ping") =>
        /\ clock' - clock <= PortTimeoutMs * UsPerMs
        /\ \A id \in PortCalls : call'[id].elapsed <= clock' - clock
        /\ \E id \in PortCalls : call'[id].elapsed = clock' - clock

C15_PortsRunConcurrently ==
    []C15_WaitsForAll /\ [][C15_StartedTogether /\ C15_WaitIsSlowest]_vars

\* The requests to ports 80 and 443 both ran into the 5 s timer, and the port
\* probe took 5 s.
C15_Witness ==
    /\ pc = "ping"
    /\ call["p80"].err = ErrAborted /\ call["p443"].err = ErrAborted
    /\ call["p8080"].st = "returned"
    /\ \E id \in CallIds : call[id].elapsed = PortTimeoutMs * UsPerMs

(***************************************************************************)
(* C16.  Idempotence: two invocations on the same target, against          *)
(* upstreams that give the same responses in both runs while latencies     *)
(* differ, produce Reports with matching status fields.  As claimed: every *)
(* status field matches.  As amended: every status field but               *)
(* responseTime.status matches; responseTime.status is error in both runs  *)
(* or good/slow in both, good or slow according to the latency of the run. *)
(***************************************************************************)
C16_SecondReturned == Returned /\ first # Null /\ first[1].answers = Answers

C16_AllStatusesMatch ==
    C16_SecondReturned => Statuses(result) = first[1].statuses

C16_StatusesMatchButLatencyClass ==
    C16_SecondReturned =>
        LET now == Statuses(result)
            was == first[1].statuses
        IN  /\ \A k \in DOMAIN now \ {"responseTime"} : now[k] = was[k]
            /\ now.responseTime = "error" <=> was.responseTime = "error"
            /\ {now.responseTime, was.responseTime} \subseteq {"good", "slow", "error"}

\* The website answered 200 in both runs, within 100 ms in the first and only
\* after 600 ms in the second.
C16_Witness ==
    /\ C16_SecondReturned
    /\ first[1].statuses.responseTime = "good"
    /\ result.responseTime.status = "slow"
    /\ result.websiteMonitoring.status = "online"

(***************************************************************************)
(* C17.  HTTP-Reachability success outcome: whenever the request obtains a *)
(* response, websiteMonitoring.status is online exactly when the final     *)
(* response is OK (2xx) and offline otherwise, statusCode is that          *)
(* response's code, and responseTime.status is good when the elapsed time  *)
(* (before rounding) is below 500 ms and slow when it is 500 ms or more;   *)
(* responseTime.value is the elapsed time rounded to milliseconds.         *)
(***************************************************************************)
C17_WebSuccessOutcome ==
    ("websiteMonitoring" \in DOMAIN result /\ call["web"].st = "returned") =>
        LET code == call["web"].resp[1]
            elapsed == call["web"].elapsed
        IN  /\ result.websiteMonitoring.status =
                  IF code >= 200 /\ code <= 299 THEN "online" ELSE "offline"
            /\ DOMAIN result.websiteMonitoring = {"status", "statusCode"}
            /\ result.websiteMonitoring.statusCode = Some(code)
            /\ result.responseTime.status =
                  IF elapsed < 500 * UsPerMs THEN "good" ELSE "slow"
            /\ result.responseTime.unit = "ms"
            /\ result.responseTime.value # Null
            /\ 2 * UsPerMs * result.responseTime.value[1] - UsPerMs <= 2 * elapsed
            /\ 2 * elapsed < 2 * UsPerMs * result.responseTime.value[1] + UsPerMs

\* The response came after 499.6 ms: the value reads 500 and the class is good.
C17_Witness ==
    /\ "responseTime" \in DOMAIN result
    /\ call["web"].st = "returned"
    /\ call["web"].elapsed = 499600
    /\ result.responseTime.value = Some(500)
    /\ result.responseTime.status = "good"
    /\ result.websiteMonitoring.status = "online"

(***************************************************************************)
(* C18.  Ping-Equivalent outcome mapping: pingMonitoring is reachable,     *)
(* with an elapsed time, when its request obtained a response (of any      *)
(* code), and unreachable, with the error message, when the request failed *)
(* or timed out; in both cases method is http, and the status is never any *)
(* other value.                                                            *)
(***************************************************************************)
C18_PingOutcome ==
    "pingMonitoring" \in DOMAIN result =>
        LET ping == result.pingMonitoring
        IN  /\ {"status", "method"} \subseteq DOMAIN ping
            /\ ping.method = "http"
            /\ ping.status \in {"reachable", "unreachable"}
            /\ ping.status = "reachable" <=> call["ping"].st = "returned"
            /\ ping.status = "unreachable" <=> call["ping"].st = "threw"
            /\ ping.status = "reachable" =>
                  /\ DOMAIN ping = {"status", "time", "unit", "method"}
                  /\ ping.time >= 0 /\ ping.unit = "ms"
                  /\ call["ping"].resp # Null
            /\ ping.status = "unreachable" =>
                  /\ DOMAIN ping = {"status", "method", "error"}
                  /\ ping.error = call["ping"].err
                  /\ ping.error \in {ErrAborted, ErrFetch}

\* The ping request ran into its 6 s timer.
C18_Witness ==
    /\ Returned
    /\ call["ping"].timer = "fired"
    /\ result.pingMonitoring.status = "unreachable"
    /\ result.pingMonitoring.error = ErrAborted
    /\ result.pingMonitoring.method = "http"

(***************************************************************************)
(* C19.  For an accepted request (GET with a target header) whose          *)
(* orchestration succeeds, the caller receives exactly one Report object   *)
(* as the response body, not an array wrapping the Report.                 *)
(***************************************************************************)
C19_BodyIsOneReportObject ==
    (req.method = "GET" /\ input # NoTarget /\ Returned) =>
        /\ res # Null
        /\ res[1].status = 200
        /\ res[1].body.type = "object"
        /\ res[1].body.value = result

(***************************************************************************)
(* C20.  Method-upgrade protocol of safeHeadOrGet: each call issues one    *)
(* HEAD request first and at most one GET request, the GET exactly when    *)
(* the HEAD request returned a response that is not OK (405 included); no  *)
(* GET when the HEAD request threw or was aborted; never more than two     *)
(* requests; and one timer covers HEAD and GET together: it stays armed,   *)
(* with the same deadline, when the GET is issued, and a call it aborts    *)
(* has lasted exactly its timeout.                                         *)
(***************************************************************************)
C20_Requests ==
    \A id \in CallIds :
        LET c == call[id]
        IN  c.st # "idle" =>
                /\ c.nhead = 1
                /\ c.nget \in {0, 1}
                /\ c.nget = 1 <=>
                      (c.head # Null /\ ~(c.head[1] >= 200 /\ c.head[1] <= 299))
                /\ c.head = Null => c.nget = 0
                /\ c.st = "get" => c.nget = 1
                /\ InFlight(c) <=> c.timer = "armed"
                /\ c.timer = "fired" =>
                      c.st = "threw" /\ c.err = ErrAborted /\ c.elapsed = c.timeoutUs
                /\ c.st = "returned" => c.elapsed <= c.timeoutUs

C20_Steps ==
    \A id \in CallIds :
        /\ (call[id].st = "idle" /\ call'[id].st # "idle") =>
              call'[id].st = "head" /\ call'[id].nhead = 1 /\ call'[id].nget = 0
        /\ call'[id].nget > call[id].nget =>
              /\ call[id].st = "head" /\ call'[id].st = "get"
              /\ call'[id].timer = "armed"
              /\ call'[id].timeoutUs = call[id].timeoutUs
        /\ (call[id].st # "idle" /\ call'[id].st # "idle") =>
              call'[id].nhead = call[id].nhead

C20_MethodUpgrade == []C20_Requests /\ [][C20_Steps]_vars

\* HEAD was answered 405, the GET that followed was aborted by the timer.
C20_Witness ==
    /\ call["web"].head = Some(405)
    /\ call["web"].nhead = 1 /\ call["web"].nget = 1
    /\ call["web"].timer = "fired"
    /\ call["web"].elapsed = WebTimeoutMs * UsPerMs

(***************************************************************************)
(* C21.  Cancellation is scoped to one check: each safeHeadOrGet call has  *)
(* its own timer and abort controller.  A request is aborted only by the   *)
(* timer of its own call; the step in which the timer of a call fires      *)
(* turns that call into its own error outcome and leaves every other call, *)
(* in flight or finished, and every other port's entry as they were.       *)
(***************************************************************************)
C21_AbortedByOwnTimer ==
    \A id \in CallIds : call[id].err = ErrAborted <=> call[id].timer = "fired"

C21_OwnErrorOutcome(id) ==
    CASE id = "web"  -> /\ result'.websiteMonitoring.status = "offline"
                        /\ result'.websiteMonitoring.error = ErrAborted
                        /\ result'.responseTime.status = "error"
      [] id = "ping" -> /\ result'.pingMonitoring.status = "unreachable"
                        /\ result'.pingMonitoring.error = ErrAborted
      [] OTHER       -> result'.portMonitoring[PortText(PortOf(id))] =
                            [status |-> "closed-or-filtered"]

C21_TimerStep ==
    \A id \in CallIds :
        (call[id].timer = "armed" /\ call'[id].timer = "fired") =>
            /\ call'[id].st = "threw" /\ call'[id].err = ErrAborted
            /\ C21_OwnErrorOutcome(id)
            /\ \A j \in CallIds \ {id} :
                  call[j].st # "idle" =>
                      /\ call'[j] = call[j]
                      /\ (j \in PortCalls /\ Finished(call[j])) =>
                            result'.portMonitoring[PortText(PortOf(j))] =
                                result.portMonitoring[PortText(PortOf(j))]

C21_OneCallPerStep ==
    \A i, j \in CallIds :
        (InFlight(call[i]) /\ InFlight(call[j])
            /\ call'[i] # call[i] /\ call'[j] # call[j]) => i = j

C21_CancellationIsScoped ==
    []C21_AbortedByOwnTimer /\ [][C21_TimerStep /\ C21_OneCallPerStep]_vars

\* The timer of the port-80 check has fired while the request to port 443 is
\* still in flight with its own timer armed.
C21_Witness ==
    /\ call["p80"].timer = "fired"
    /\ result.portMonitoring["80"].status = "closed-or-filtered"
    /\ InFlight(call["p443"]) /\ call["p443"].timer = "armed"
    /\ "443" \notin DOMAIN result.portMonitoring

(***************************************************************************)
(* C22.  In the TLS probe the outcome is fixed by the first of the socket  *)
(* events secureConnect, timeout and error: the handshake promise settles  *)
(* exactly once, and an event delivered after the first one (a timeout or  *)
(* an error after secureConnect) changes neither the settled promise nor   *)
(* sslMonitoring.                                                          *)
(***************************************************************************)
C22_OutcomeOfFirstEvent ==
    /\ sock.promise = "pending" => sock.fired = {}
    /\ sock.promise = "resolved" =>
          /\ "secureConnect" \in sock.fired
          /\ sock.cert # Null /\ sock.err = ""
    /\ sock.promise = "rejected" =>
          /\ sock.fired \in {{"timeout"}, {"error"}}
          /\ sock.cert = Null
          /\ sock.err = IF sock.fired = {"timeout"} THEN ErrTlsTimeout
                        ELSE ErrConnRefused
    /\ "sslMonitoring" \in DOMAIN result =>
          /\ sock.promise \in {"resolved", "rejected"}
          /\ result.sslMonitoring.status = "error" <=> sock.promise = "rejected"

C22_SettledStays ==
    (sock.promise \in {"resolved", "rejected"} /\ ~(pc = "done" /\ pc' = "init")) =>
        /\ sock'.promise = sock.promise
        /\ sock'.cert = sock.cert
        /\ sock'.err = sock.err
        /\ "sslMonitoring" \in DOMAIN result'
        /\ "sslMonitoring" \in DOMAIN result =>
              result'.sslMonitoring = result.sslMonitoring

C22_SettlesOnce ==
    (sock.promise # sock'.promise) =>
        \/ sock.promise = "none" /\ sock'.promise = "pending"
        \/ sock.promise = "pending" /\ sock'.promise \in {"resolved", "rejected"}
        \/ pc = "done" /\ pc' = "init"

C22_FirstEventDecides ==
    []C22_OutcomeOfFirstEvent /\ [][C22_SettledStays /\ C22_SettlesOnce]_vars

\* An error event came after secureConnect: the socket is destroyed, the
\* promise is still resolved and sslMonitoring still says valid.
C22_Witness ==
    /\ sock.fired = {"secureConnect", "error"}
    /\ sock.st = "destroyed"
    /\ sock.promise = "resolved"
    /\ result.sslMonitoring.status = "valid"

====
